---- MODULE Spec2Model ----
(***************************************************************************)
(* Model of datasets/get_data.py: download "kias.zip" with wget, extract   *)
(* every member with zipfile.ZipFile under a tqdm progress bar, then       *)
(* remove "kias.zip".                                                      *)
(*                                                                         *)
(* A path is the sequence of its "/"-separated components, relative to the *)
(* working directory: "a/b.txt" is <<"a", "b.txt">>, "../x" is             *)
(* <<"..", "x">>, "/x" is <<"", "x">>, "a/" is <<"a", "">>.  The working    *)
(* directory itself is <<>>.  The filesystem fs maps every existing path   *)
(* to what is stored there.                                                *)
(***************************************************************************)
EXTENDS Integers, Sequences, FiniteSets, TLC

\* Largest number of members of the remote archive.
MaxMembers == 2

\* get_data.py:9, the destination handed to wget.download.
NAME == <<"kias.zip">>

\* get_data.py:13, the literal path ZipFile opens.
OpenPath == <<"kias.zip">>

------------------------------------------------------------------------------
\* File contents: plain bytes, a zip container (its directory table with the
\* data of every member), or a directory.

Raw(b) == [kind |-> "raw", bytes |-> b, members |-> <<>>]

Zip(ms) == [kind |-> "zip", bytes |-> "", members |-> ms]

Dir == [kind |-> "dir", bytes |-> "", members |-> <<>>]

Data == {"hello", "world"}

MemberNames ==
  { <<"c.txt">>, <<"a", "b.txt">>, <<"a">>, <<"a", "">>,
    <<"..", "x">>, <<"", "x">>, <<"kias.zip">> }

Members == [name : MemberNames, data : Data]

Archives == UNION { [1..k -> Members] : k \in 0..MaxMembers }

\* What the URL can serve: a container, or something that is not one.
RemoteResources == { Raw("junk") } \cup { Zip(ms) : ms \in Archives }

\* Names wget gives a download whose destination already exists.
NumberedNames == << <<"kias (1).zip">>, <<"kias (2).zip">>, <<"kias (3).zip">> >>

\* What the working directory may hold before the script starts.
PrePaths == { NAME, NumberedNames[1], <<"c.txt">> }

PreContents(p) ==
  IF p = NAME
    THEN { Raw("junk"), Dir, Zip(<<>>),
           Zip(<< [name |-> <<"c.txt">>, data |-> "hello"] >>) }
    ELSE { Raw("old") }

InitialDirs ==
  UNION { { f \in [D -> UNION { PreContents(p) : p \in D }] :
              \A p \in D : f[p] \in PreContents(p) } : D \in SUBSET PrePaths }

------------------------------------------------------------------------------
\* Filesystem primitives.

WriteFile(files, p, c) ==
  [q \in DOMAIN files \cup {p} |-> IF q = p THEN c ELSE files[q]]

os_remove(files, p) == [q \in DOMAIN files \ {p} |-> files[q]]

move(files, src, dst) == WriteFile(os_remove(files, src), dst, files[src])

isdir(files, p) == p = <<>> \/ (p \in DOMAIN files /\ files[p].kind = "dir")

exists(files, p) == p = <<>> \/ p \in DOMAIN files

upperdirs(target) == { SubSeq(target, 1, k) : k \in 1..(Len(target) - 1) }

makedirs(files, target) ==
  [q \in DOMAIN files \cup upperdirs(target) |->
     IF q \in DOMAIN files THEN files[q] ELSE Dir]

SetMax(S) == CHOOSE m \in S : \A k \in S : k <= m

------------------------------------------------------------------------------
VARIABLES
  pc,         \* position of the script
  fs,         \* the filesystem
  fs0,        \* the filesystem before the script started
  remote,     \* the resource the URL serves
  saved,      \* the path wget.download returned (the script discards it)
  zip_ref,    \* directory table of the open ZipFile
  isOpen,     \* whether zip_ref is open
  idx,        \* how many names the loop has taken from namelist()
  file,       \* the loop variable
  bar,        \* the tqdm bar: counter n and total
  extracted,  \* names whose extract() call returned
  err         \* the exception that ended the run, "none" when there is none

vars == <<pc, fs, fs0, remote, saved, zip_ref, isOpen, idx, file, bar,
          extracted, err>>

\* Mutant: the exception is swallowed and the script goes on to its cleanup.
Raise_swallowed == "remove"

\* An exception nobody catches ends the script.
Raise == "failed"

------------------------------------------------------------------------------
\* wget.download(URL, NAME)

\* Mutant: the download is streamed straight into the destination.
tmpfile_is_destination == NAME

\* The temporary file wget creates with mkstemp(".tmp", prefix=NAME, dir=".").
tmpfile == <<"kias.zip.tmp">>

filename_fix_existing(files) ==
  LET indexes == { i \in 1..Len(NumberedNames) : NumberedNames[i] \in DOMAIN files }
  IN  NumberedNames[1 + SetMax(indexes \cup {0})]

\* The file name wget moves the finished download to.
download_target(files) ==
  LET filename == IF isdir(files, NAME) THEN NAME \o <<"kias.zip">> ELSE NAME
  IN  IF exists(files, filename) THEN filename_fix_existing(files) ELSE filename

NetworkOutcomes == { "ok", "unreachable", "interrupted" }

Download ==
  /\ pc = "download"
  /\ \E net \in NetworkOutcomes :
       IF net = "ok"
         THEN LET downloaded == WriteFile(fs, tmpfile, remote)
                  target == download_target(downloaded)
              IN  /\ fs' = move(downloaded, tmpfile, target)
                  /\ saved' = target
                  /\ pc' = "open"
                  /\ err' = err
         ELSE /\ fs' = IF net = "interrupted"
                         THEN WriteFile(fs, tmpfile, Raw("part"))
                         ELSE fs
              /\ saved' = saved
              /\ pc' = Raise
              /\ err' = "NetworkError"
  /\ UNCHANGED <<fs0, remote, zip_ref, isOpen, idx, file, bar, extracted>>

------------------------------------------------------------------------------
\* with ZipFile("kias.zip", "r") as zip_ref

Open ==
  /\ pc = "open"
  /\ IF ~ exists(fs, OpenPath)
       THEN pc' = Raise /\ err' = "NotFoundError" /\ UNCHANGED <<zip_ref, isOpen>>
     ELSE IF isdir(fs, OpenPath)
       THEN pc' = Raise /\ err' = "FilesystemError" /\ UNCHANGED <<zip_ref, isOpen>>
     ELSE IF fs[OpenPath].kind # "zip"
       THEN pc' = Raise /\ err' = "FormatError" /\ UNCHANGED <<zip_ref, isOpen>>
     ELSE /\ zip_ref' = fs[OpenPath].members
          /\ isOpen' = TRUE
          /\ pc' = "for"
          /\ err' = err
  /\ UNCHANGED <<fs, fs0, remote, saved, idx, file, bar, extracted>>

namelist(zr) == [i \in 1..Len(zr) |-> zr[i].name]

\* for file in tqdm(iterable=zip_ref.namelist(), total=len(zip_ref.namelist()))
StartLoop ==
  /\ pc = "for"
  /\ bar' = [n |-> 0, total |-> Len(namelist(zip_ref))]
  /\ idx' = 0
  /\ pc' = "iter"
  /\ UNCHANGED <<fs, fs0, remote, saved, zip_ref, isOpen, file, extracted, err>>

\* Mutant: the loop stops one name early.
exhausted_early(names, i) == i + 1 >= Len(names)

exhausted(names, i) == i >= Len(names)

\* Mutant: the names are taken from the end of the list.
next_item_reversed(names, i) == names[Len(names) - i]

next_item(names, i) == names[i + 1]

\* tqdm asks the list for its next name and yields it to the loop body.
Iter ==
  /\ pc = "iter"
  /\ IF exhausted(namelist(zip_ref), idx)
       THEN pc' = "close" /\ UNCHANGED <<idx, file>>
       ELSE /\ file' = next_item(namelist(zip_ref), idx)
            /\ idx' = idx + 1
            /\ pc' = "body"
  /\ UNCHANGED <<fs, fs0, remote, saved, zip_ref, isOpen, bar, extracted, err>>

------------------------------------------------------------------------------
\* zip_ref.extract(member=file)

\* NameToInfo keeps the last directory entry of a name.
getinfo(zr, name) ==
  zr[SetMax({ i \in 1..Len(zr) : zr[i].name = name })]

invalid_path_parts == { "", ".", ".." }

\* Mutant: the member name is used as the target path unchanged.
arcname_unsanitized(filename) == filename

arcname(filename) ==
  SelectSeq(filename, LAMBDA x : x \notin invalid_path_parts)

is_dir(filename) == Len(filename) > 0 /\ filename[Len(filename)] = ""

\* The archive file still holds what ZipFile read when it opened it.
intact(files, zr) == OpenPath \in DOMAIN files /\ files[OpenPath] = Zip(zr)

\* What can happen to one extract() call besides succeeding: the target
\* cannot be opened, the disk fills up, or (once the archive file has been
\* overwritten) the member can no longer be read from it.
ExtractOutcomes(files, zr, name) ==
  { "ok", "denied", "full" }
    \cup (IF ~ intact(files, zr) THEN { "badheader" } ELSE {})
    \cup (IF ~ intact(files, zr) \/ arcname(name) = OpenPath
            THEN { "shortread" } ELSE {})

extract(files, zr, name, env) ==
  LET info == getinfo(zr, name)
      targetpath == arcname(info.name)
      made == makedirs(files, targetpath)
  IN  IF \E d \in upperdirs(targetpath) : exists(files, d) /\ ~ isdir(files, d)
        THEN [err |-> "FilesystemError", fs |-> files]
      ELSE IF is_dir(info.name)
        THEN IF isdir(made, targetpath)
               THEN [err |-> "none", fs |-> made]
             ELSE IF exists(made, targetpath)
               THEN [err |-> "FilesystemError", fs |-> made]
             ELSE [err |-> "none", fs |-> WriteFile(made, targetpath, Dir)]
      ELSE IF env = "badheader"
        THEN [err |-> "FormatError", fs |-> made]
      ELSE IF isdir(made, targetpath) \/ env = "denied"
        THEN [err |-> "FilesystemError", fs |-> made]
      ELSE IF env = "full"
        THEN [err |-> "FilesystemError", fs |-> WriteFile(made, targetpath, Raw(""))]
      ELSE IF env = "shortread"
        THEN [err |-> "FormatError", fs |-> WriteFile(made, targetpath, Raw(""))]
      ELSE [err |-> "none", fs |-> WriteFile(made, targetpath, Raw(info.data))]

ExtractMember ==
  /\ pc = "body"
  /\ \E env \in ExtractOutcomes(fs, zip_ref, file) :
       LET r == extract(fs, zip_ref, file, env)
       IN  /\ fs' = r.fs
           /\ IF r.err = "none"
                THEN /\ extracted' = Append(extracted, file)
                     /\ pc' = "advance"
                     /\ UNCHANGED <<isOpen, err>>
                ELSE /\ isOpen' = FALSE
                     /\ pc' = Raise
                     /\ err' = r.err
                     /\ UNCHANGED extracted
  /\ UNCHANGED <<fs0, remote, saved, zip_ref, idx, file, bar>>

\* The loop body returned: tqdm counts the item.
Advance ==
  /\ pc = "advance"
  /\ bar' = [bar EXCEPT !.n = @ + 1]
  /\ pc' = "iter"
  /\ UNCHANGED <<fs, fs0, remote, saved, zip_ref, isOpen, idx, file, extracted, err>>

\* Leaving the with block closes zip_ref.
Close ==
  /\ pc = "close"
  /\ isOpen' = FALSE
  /\ pc' = "remove"
  /\ UNCHANGED <<fs, fs0, remote, saved, zip_ref, idx, file, bar, extracted, err>>

------------------------------------------------------------------------------
\* os.remove("kias.zip")

\* Mutant: the script removes the file wget reported instead of "kias.zip".
RemovePath_returned == saved

RemovePath == <<"kias.zip">>

Remove ==
  /\ pc = "remove"
  /\ IF ~ exists(fs, RemovePath)
       THEN pc' = Raise /\ err' = "NotFoundError" /\ fs' = fs
     ELSE IF isdir(fs, RemovePath)
       THEN pc' = Raise /\ err' = "FilesystemError" /\ fs' = fs
     ELSE fs' = os_remove(fs, RemovePath) /\ pc' = "done" /\ err' = err
  /\ UNCHANGED <<fs0, remote, saved, zip_ref, isOpen, idx, file, bar, extracted>>

------------------------------------------------------------------------------
Init ==
  /\ pc = "download"
  /\ fs \in InitialDirs
  /\ fs0 = fs
  /\ remote \in RemoteResources
  /\ saved = <<>>
  /\ zip_ref = <<>>
  /\ isOpen = FALSE
  /\ idx = 0
  /\ file = <<>>
  /\ bar = [n |-> 0, total |-> 0]
  /\ extracted = <<>>
  /\ err = "none"

Next ==
  \/ Download
  \/ Open
  \/ StartLoop
  \/ Iter
  \/ ExtractMember
  \/ Advance
  \/ Close
  \/ Remove

Spec == Init /\ [][Next]_vars

------------------------------------------------------------------------------
\* Vocabulary of the properties.

\* The download completed: wget.download returned a path.
Downloaded == saved # <<>>

\* A name that points out of the working directory: absolute, or with a
\* parent-directory reference.
Escapes(name) ==
  Len(name) > 0 /\ (name[1] = "" \/ \E k \in 1..Len(name) : name[k] = "..")

\* A path below the working directory.
InsideCwd(p) ==
  Len(p) > 0 /\ \A k \in 1..Len(p) : p[k] \notin { "", ".", ".." }

\* An archive of plain files: distinct names, each a path below the working
\* directory, none the archive's own name, none a directory of another.
PlainArchive(ms) ==
  /\ \A i \in 1..Len(ms) : InsideCwd(ms[i].name) /\ ms[i].name # NAME
  /\ \A i, j \in 1..Len(ms) :
       i # j => ms[i].name # ms[j].name /\ ms[i].name \notin upperdirs(ms[j].name)

\* Fetcher, Extractor, Cleanup, end of the run.
StageOf(p) ==
  CASE p = "download" -> 1
    [] p \in { "open", "for", "iter", "body", "advance", "close" } -> 2
    [] p = "remove" -> 3
    [] OTHER -> 4

------------------------------------------------------------------------------
\* C1: for every well-formed archive served by the URL, when the run ends
\* successfully a file exists at the internal name of each of its N members
\* and holds that member's content.  (Stated here for archives of plain
\* files only, the reading most favourable to the claim.)
C1_MembersOnDisk ==
  (pc = "done" /\ remote.kind = "zip" /\ PlainArchive(remote.members)) =>
    \A i \in 1..Len(remote.members) :
      /\ remote.members[i].name \in DOMAIN fs
      /\ fs[remote.members[i].name] = Raw(remote.members[i].data)

\* C2: in every run that ends successfully, no file "kias.zip" exists in the
\* working directory in the final state.
C2_ArchiveRemoved == pc = "done" => NAME \notin DOMAIN fs

\* C2 witness: a successful run that started with a "kias.zip" already there
\* and extracted a member.
C2_Witness == pc = "done" /\ NAME \in DOMAIN fs0 /\ Len(extracted) = 1

\* C3: the stages run in the order Fetcher, Extractor, Cleanup; a member is
\* extracted only after the download completed and while the archive is
\* open; "kias.zip" is deleted only by Cleanup, after every listed member
\* was extracted and the archive was closed.
C3_StrictOrder ==
  [][ /\ StageOf(pc') >= StageOf(pc)
      /\ extracted' # extracted => Downloaded /\ isOpen /\ StageOf(pc) = 2
      /\ (NAME \in DOMAIN fs /\ NAME \notin DOMAIN fs') =>
           /\ pc = "remove"
           /\ Downloaded
           /\ ~ isOpen
           /\ extracted = namelist(zip_ref) ]_vars

\* C3 witness: Cleanup has deleted the archive after two members were
\* extracted.
C3_Witness == pc = "done" /\ Len(extracted) = 2 /\ NAME \notin DOMAIN fs

\* C4: whatever the working directory held, once the Fetcher completes the
\* file at "kias.zip" holds the remote resource, and the file the Fetcher
\* created is the one the Extractor opens and Cleanup deletes.
C4_FetchedIsOpened ==
  pc = "open" =>
    /\ NAME \in DOMAIN fs
    /\ fs[NAME] = remote
    /\ saved = OpenPath
    /\ saved = RemovePath

\* C5: no error is caught: the step that fails ends the run in the failed
\* state, extracts nothing, leaves the archive closed and does not delete
\* "kias.zip" or the downloaded file; no step follows it, and no run that
\* met an error ends successfully.
C5_NoErrorCaught ==
  [][ /\ pc # "failed"
      /\ err' # "none" =>
           /\ pc' = "failed"
           /\ extracted' = extracted
           /\ ~ isOpen'
           /\ (NAME \in DOMAIN fs => NAME \in DOMAIN fs')
           /\ (saved' # <<>> => saved' \in DOMAIN fs')
      /\ pc' = "done" => err' = "none" ]_vars

\* C5 witness: extracting the second of two members failed after the first
\* was extracted; the archive is still there.
C5_Witness ==
  /\ pc = "failed"
  /\ err = "FilesystemError"
  /\ Len(zip_ref) = 2
  /\ Len(extracted) = 1
  /\ idx = 2
  /\ NAME \in DOMAIN fs

\* C6: when the downloaded file is not a container, the run fails with a
\* FormatError when the Extractor opens the archive, and no member is ever
\* extracted.
C6_MalformedFails ==
  (Downloaded /\ remote.kind = "raw") =>
    /\ extracted = <<>>
    /\ pc \in { "open", "failed" }
    /\ pc = "failed" => err = "FormatError"

\* C7 as stated: when the network fails during the download the run fails
\* with a NetworkError before any extraction is attempted, and the working
\* directory holds no file it did not hold before.
C7_NothingLeftBehind ==
  err = "NetworkError" =>
    /\ pc = "failed"
    /\ extracted = <<>> /\ file = <<>> /\ ~ isOpen
    /\ DOMAIN fs \subseteq DOMAIN fs0

\* C7 amended: when the network fails during the download the run fails with
\* a NetworkError before any extraction is attempted; no file is created at
\* "kias.zip" and nothing that was in the working directory changes; the only
\* file that can be left behind is wget's temporary file with the part of the
\* download that arrived.
C7_OnlyTemporaryLeftBehind ==
  err = "NetworkError" =>
    /\ pc = "failed"
    /\ extracted = <<>> /\ file = <<>> /\ ~ isOpen /\ ~ Downloaded
    /\ DOMAIN fs \subseteq DOMAIN fs0 \cup { <<"kias.zip.tmp">> }
    /\ \A p \in DOMAIN fs0 : p \in DOMAIN fs /\ fs[p] = fs0[p]
    /\ (NAME \in DOMAIN fs <=> NAME \in DOMAIN fs0)

\* C7 witness: an interrupted download left its temporary file behind.
C7_Witness ==
  err = "NetworkError" /\ <<"kias.zip.tmp">> \in DOMAIN fs /\ NAME \notin DOMAIN fs

\* C8: when the downloaded archive is a container with no members, nothing
\* is extracted, the run cannot fail, and at its end the archive file is
\* deleted: neither "kias.zip" nor the downloaded file exists.
C8_EmptyArchiveSucceeds ==
  (Downloaded /\ remote = Zip(<<>>)) =>
    /\ extracted = <<>>
    /\ pc # "failed"
    /\ pc = "done" => (NAME \notin DOMAIN fs /\ saved \notin DOMAIN fs)

\* C9 as stated: a member whose name escapes the working directory is
\* written at the location its name points to.
C9_WritesWhereNamePoints ==
  \A i \in 1..Len(extracted) :
    Escapes(extracted[i]) => extracted[i] \in DOMAIN fs

\* C9 amended: a member whose name is absolute or has parent-directory
\* references is written inside the working directory, at its name with the
\* empty, "." and ".." components dropped; no step of the script creates or
\* changes a path outside the working directory.
C9_WritesInsideCwd ==
  [][ /\ \A p \in DOMAIN fs' :
           (p \notin DOMAIN fs \/ fs'[p] # fs[p]) => InsideCwd(p)
      /\ (extracted' # extracted /\ ~ is_dir(file)) =>
           LET kept == SelectSeq(file, LAMBDA x : x \notin { "", ".", ".." })
           IN  /\ kept \in DOMAIN fs'
               /\ fs'[kept] = Raw(getinfo(zip_ref, file).data) ]_vars

\* C9 witness: a member named "../x" or "/x" has been extracted.
C9_Witness ==
  \E i \in 1..Len(extracted) :
    Escapes(extracted[i]) /\ <<"x">> \in DOMAIN fs /\ <<"x">> \notin DOMAIN fs0

\* C10: members are extracted one at a time in directory order: the names
\* extracted so far are a prefix of the name list; the bar's counter is never
\* ahead of the number of extracted members, catches up after each one, and
\* a step that advances it changes neither the files nor what was extracted.
C10_InOrderProgress ==
  [][ /\ extracted' = SubSeq(namelist(zip_ref'), 1, Len(extracted'))
      /\ Len(extracted') <= Len(extracted) + 1
      /\ bar'.n <= Len(extracted')
      /\ Len(extracted') <= bar'.n + 1
      /\ pc' \in { "iter", "close", "remove", "done" } => bar'.n = Len(extracted')
      /\ bar'.n # bar.n =>
           /\ bar'.n = bar.n + 1
           /\ fs' = fs
           /\ extracted' = extracted ]_vars

\* C10 witness: two differently named members are extracted and the bar has
\* counted the first only.
C10_Witness ==
  /\ pc = "advance"
  /\ Len(extracted) = 2
  /\ extracted[1] # extracted[2]
  /\ bar.n = 1

====
